---- MODULE Spec2Model ----
(***************************************************************************)
(* Authorization pipeline of the eduhelper backend:                        *)
(*   JWTAuth -> AuthRequired -> RBACMiddleware.RequirePermission(p) ->     *)
(*   resource handler,                                                     *)
(* together with the user_role / role_permission tables that the gate      *)
(* reads and the repository operations that change them.                   *)
(*                                                                         *)
(* Strings that the code transforms (permission names, the Authorization   *)
(* header prefix) are sequences of one-character strings, so that          *)
(* strings.ToLower and strings.HasPrefix are computed, not assumed.        *)
(***************************************************************************)
EXTENDS Integers, Sequences, FiniteSets, TLC

VARIABLES
    now,        \* time.Now().Unix(), whole seconds
    userRoles,  \* table user_roles: set of <<user_id, role_id>>
    rolePerms,  \* table role_permissions: set of <<role_id, permission_id>>
    lastOp,     \* history: the last repository write that changed a row
    opCount,    \* history: number of repository writes that changed a row
    dirty,      \* history: a row changed since the current request's first lookup
    permsSet,   \* the gate's local map permsSet (lower-cased permission names)
    req,        \* the request travelling through the middleware chain
    expired,    \* history: the tokens that JWTAuth has answered "Token is expired"
    snap,       \* history: what the subject held between first lookup and decision
    users,      \* table user: set of rows [id, email, password]
    userSeq,    \* the identity counter of table user (the last id handed out)
    issued,     \* history: tokens handed out by Login and Register
    auditLog,   \* table audit_log: the entries written, oldest first
    resp,       \* the answer of the last account or resource handler that ran
    pending     \* Register requests between their email lookup and their insert

\* the state that only the account and resource handlers change
account == <<users, userSeq, issued, auditLog, resp, pending>>

vars == <<now, userRoles, rolePerms, lastOp, opCount, dirty, permsSet, req,
          expired, snap, users, userSeq, issued, auditLog, resp, pending>>

(***************************** bounds ***************************************)
MaxTime == 2
MaxOps == 3
MaxUserID == 3      \* ids the identity counter of table user may reach
MaxIssued == 2      \* tokens Login and Register hand out in one behaviour
MaxAudit == 1         \* rows of audit_log
MaxPending == 2       \* Register requests past their lookup at one time

(***************************** strings **************************************)
LowerAlphabet ==
    <<"a","b","c","d","e","f","g","h","i","j","k","l","m",
      "n","o","p","q","r","s","t","u","v","w","x","y","z">>

UpperAlphabet ==
    <<"A","B","C","D","E","F","G","H","I","J","K","L","M",
      "N","O","P","Q","R","S","T","U","V","W","X","Y","Z">>

ToLowerChar(c) ==
    IF \E i \in 1..Len(UpperAlphabet) : UpperAlphabet[i] = c
    THEN LowerAlphabet[CHOOSE i \in 1..Len(UpperAlphabet) : UpperAlphabet[i] = c]
    ELSE c

ToLowerKeep(s) == s

\* strings.ToLower
ToLower(s) == [i \in 1..Len(s) |-> ToLowerChar(s[i])]

HasPrefixFold(s, prefix) ==
    /\ Len(s) >= Len(prefix)
    /\ \A i \in 1..Len(prefix) : ToLowerChar(s[i]) = ToLowerChar(prefix[i])

\* strings.HasPrefix
HasPrefix(s, prefix) ==
    /\ Len(s) >= Len(prefix)
    /\ SubSeq(s, 1, Len(prefix)) = prefix

bearerPrefix == <<"B","e","a","r","e","r"," ">>

(***************************** stored data **********************************)
Users == {1, 2}          \* rows of table "user"; identity column, ids start at 1
AdminRole == 1           \* first row of the roles seed
StudentRole == 4         \* fourth row of the roles seed
Roles == {AdminRole, StudentRole}

StrUserList == <<"u","s","e","r",":","l","i","s","t">>
StrStudentView == <<"s","t","u","d","e","n","t",":","v","i","e","w">>
StrStudentViewMixed == <<"S","t","u","d","e","n","t",":","V","i","e","w">>
StrStudentViewPublic == StrStudentView \o <<"_","p","u","b","l","i","c">>
StrUserListMixed == <<"U","s","e","r",":","L","i","s","t">>

\* table permissions: permission_id -> permission_name, casing as stored
PermissionName ==
    <<StrUserList, StrStudentViewMixed, StrStudentViewPublic>>

PermIDs == DOMAIN PermissionName

SeedAdminAsStudent ==
    ({AdminRole, StudentRole} \X {2, 3})

\* seed of role_permissions: admin gets every permission, student a subset
SeedRolePermissions ==
    ({AdminRole} \X PermIDs) \cup {<<StudentRole, 2>>, <<StudentRole, 3>>}

\* permission strings handed to RequirePermission
GatePerms == {StrUserList, StrStudentView, StrStudentViewPublic, StrUserListMixed}

\* e-mail addresses and passwords that requests carry; "" is an empty field
Emails == {"", "ann@x", "new@x"}
Passwords == {"", "pw1", "pw2"}

\* bcrypt.GenerateFromPassword: a hash that matches exactly one password
GenerateFromPassword(password) == [kind |-> "bcrypt", of |-> password]

\* bytes stored in the password column as they came in the request body
RawPassword(password) == [kind |-> "raw", of |-> password]

\* a comparison of the bytes as they are stored, hashed or not
ComparePlaintext(hash, password) == hash.of = password

\* bcrypt.CompareHashAndPassword(hash, password) returns nil
CompareHashAndPassword(hash, password) ==
    hash.kind = "bcrypt" /\ hash.of = password

\* rows of table user present before the first request
SeedUsers ==
    { [id |-> 1, email |-> "ann@x", password |-> GenerateFromPassword("pw1")],
      [id |-> 2, email |-> "bob@x", password |-> GenerateFromPassword("pw2")] }

(***************************** tokens ***************************************)
JwtSecret == "cfg.JwtSecret"
OtherSecret == "attacker"

AbsentClaim == [kind |-> "absent", val |-> 0]
NumClaim(n) == [kind |-> "num", val |-> n]
StrClaim == [kind |-> "str", val |-> 0]

\* HMAC over header and payload: equal exactly when key, alg and claims are equal
Sign(key, alg, id, exp) == [key |-> key, alg |-> alg, id |-> id, exp |-> exp]

MakeToken(alg, id, exp, key) ==
    [alg |-> alg, id |-> id, exp |-> exp, sig |-> Sign(key, alg, id, exp)]

\* time.Duration, kept as whole seconds and the nanoseconds beyond them
Seconds(n) == [sec |-> n, nsec |-> 0]

Nanoseconds(n) == [sec |-> 0, nsec |-> n]

\* n * time.Hour
Hours(n) == [sec |-> n * 60 * 60, nsec |-> 0]

\* time.Duration(d.Hours()): Hours() is the duration as a floating-point number
\* of hours, and the conversion back to time.Duration keeps its integer part
\* as a count of nanoseconds
DurationOfHours(d) == Nanoseconds(d.sec \div (60 * 60))

\* time.Now().Add(duration).Unix() for a duration of whole seconds at time t
UnixAfter(t, duration) == t + duration.sec

\* jwt.NewToken: HS256, claims id and exp = now + duration, signed with the secret
NewToken(userID, duration, jwtSecret, t) ==
    MakeToken("HS256", NumClaim(userID), NumClaim(UnixAfter(t, duration)), jwtSecret)

HMACAlgs == {"HS256", "HS384", "HS512"}

MalformedToken ==
    [alg |-> "unparsable", id |-> AbsentClaim, exp |-> AbsentClaim,
     sig |-> Sign(OtherSecret, "unparsable", AbsentClaim, AbsentClaim)]

\* NewToken for every user, every lifetime of 1..MaxTime seconds and every
\* issue time
IssuedAt(t) == {NewToken(u, Seconds(d), JwtSecret, t) : u \in Users, d \in 1..MaxTime}

IssuedTokens == UNION {IssuedAt(t) : t \in 0..MaxTime}

\* correctly signed tokens with claims that NewToken never writes
CraftedTokens ==
    { MakeToken("HS256", NumClaim(1), AbsentClaim, JwtSecret),
      MakeToken("HS256", AbsentClaim, NumClaim(MaxTime), JwtSecret),
      MakeToken("HS256", StrClaim, NumClaim(MaxTime), JwtSecret) }

\* tokens that do not verify under the server secret
ForgedTokens ==
    { MakeToken("HS256", NumClaim(2), NumClaim(MaxTime), OtherSecret),
      MakeToken("none", NumClaim(2), NumClaim(MaxTime), JwtSecret),
      [NewToken(1, Seconds(MaxTime), JwtSecret, 0) EXCEPT !.id = NumClaim(2)],
      [NewToken(1, Seconds(1), JwtSecret, 0) EXCEPT !.exp = NumClaim(MaxTime)],
      MalformedToken }

Tokens == IssuedTokens \cup CraftedTokens \cup ForgedTokens

Header(scheme, tok) == [scheme |-> scheme, tok |-> tok]

NoHeader == Header(<< >>, MalformedToken)
BasicHeader == Header(<<"B","a","s","i","c"," ">>, MalformedToken)
LowerBearerHeader ==
    Header(<<"b","e","a","r","e","r"," ">>, NewToken(2, Seconds(MaxTime), JwtSecret, 0))

\* every Authorization header a request may carry
Headers ==
    {NoHeader, BasicHeader, LowerBearerHeader}
        \cup {Header(bearerPrefix, t) : t \in Tokens}

\* the headers used while the role graph is being changed
GraphHeaders ==
    {NoHeader}
        \cup {Header(bearerPrefix, t) : t \in CraftedTokens}
        \cup {Header(bearerPrefix, NewToken(1, Seconds(MaxTime), JwtSecret, 0))}

ParseKnownSubject(tok, secret, t) ==
    IF tok.alg = "unparsable" THEN "malformed"
    ELSE IF tok.alg \notin HMACAlgs THEN "unexpected signing method"
    ELSE IF tok.sig # Sign(secret, tok.alg, tok.id, tok.exp) THEN "signature is invalid"
    ELSE IF tok.exp.kind = "num" /\ ~(t < tok.exp.val) THEN "expired"
    ELSE IF tok.id.kind = "num" /\ ~(\E u \in users : u.id = tok.id.val)
    THEN "unknown subject"
    ELSE "ok"

ParseUnverified(tok, secret, t) ==
    IF tok.alg = "unparsable" THEN "malformed"
    ELSE IF tok.alg \notin HMACAlgs THEN "unexpected signing method"
    ELSE IF tok.exp.kind = "num" /\ ~(t < tok.exp.val) THEN "expired"
    ELSE "ok"

ParseUntypedErrors(tok, secret, t) ==
    IF tok.alg = "unparsable" THEN "malformed"
    ELSE IF tok.alg \notin HMACAlgs THEN "unexpected signing method"
    ELSE IF tok.sig # Sign(secret, tok.alg, tok.id, tok.exp) THEN "signature is invalid"
    ELSE IF tok.exp.kind = "num" /\ ~(t < tok.exp.val) THEN "token has invalid claims"
    ELSE "ok"

\* jwt.Parse with the key function of JWTAuth and the default validator:
\* the signing method must be HMAC, the signature must verify, and an exp
\* claim, when present, must be later than the time of the check
Parse(tok, secret, t) ==
    IF tok.alg = "unparsable" THEN "malformed"
    ELSE IF tok.alg \notin HMACAlgs THEN "unexpected signing method"
    ELSE IF tok.sig # Sign(secret, tok.alg, tok.id, tok.exp) THEN "signature is invalid"
    ELSE IF tok.exp.kind = "num" /\ ~(t < tok.exp.val) THEN "expired"
    ELSE "ok"

(***************************** request **************************************)
NoClaims == [set |-> FALSE, id |-> AbsentClaim, exp |-> AbsentClaim]

NewRequest(hdr, perm) ==
    [pc |-> "jwt", hdr |-> hdr, perm |-> perm, claims |-> NoClaims,
     userID |-> 0, roles |-> {}, rolesRead |-> FALSE, dbErr |-> FALSE,
     status |-> 0, ctype |-> "", body |-> "", detail |-> "", by |-> "",
     ran |-> FALSE,
     stages |-> {}, lookups |-> 0, jwtAt |-> 0, seenExpired |-> FALSE,
     subjectRows |-> {}]

\* http.Error(w, msg, code) followed by return: a plain-text body
HttpError(r, who, code, msg, detail) ==
    [r EXCEPT !.pc = "done", !.status = code, !.ctype = "text/plain",
              !.body = msg, !.detail = detail, !.by = who]

\* w.WriteHeader(code); render.JSON(w, r, response.Error(msg)); return
RenderError(r, who, code, msg) ==
    [r EXCEPT !.pc = "done", !.status = code, !.ctype = "application/json",
              !.body = msg, !.by = who]

\* the wrapped handler has answered
Handled(r, who, code, msg) ==
    [r EXCEPT !.pc = "done", !.ran = TRUE, !.status = code,
              !.ctype = "application/json", !.body = msg, !.by = who,
              !.stages = @ \cup {"handler"}]

NoOp == [kind |-> "none", a |-> 0, b |-> 0]

\* history of one request, from its roles lookup to its decision: whether at
\* some instant the subject held the required permission, and whether at some
\* instant it did not
NoSnap == [held |-> FALSE, lacked |-> FALSE]

\* no account or resource handler has answered yet
NoResponse ==
    [op |-> "none", status |-> 0, body |-> "", tok |-> MalformedToken,
     row |-> 0, auditErr |-> FALSE]

Init ==
    /\ now = 0
    /\ userRoles = {<<2, AdminRole>>}     \* user 2 is the administrator
    /\ rolePerms = SeedRolePermissions
    /\ lastOp = NoOp
    /\ opCount = 0
    /\ dirty = FALSE
    /\ permsSet = {}
    /\ req = [NewRequest(NoHeader, StrUserList) EXCEPT !.pc = "idle"]
    /\ expired = {}
    /\ snap = NoSnap
    /\ users = SeedUsers
    /\ userSeq = Cardinality(SeedUsers)
    /\ issued = {}
    /\ auditLog = << >>
    /\ resp = NoResponse
    /\ pending = {}

(***************************** JWTAuth **************************************)
\* history only: the rows of table user that the id claim of the token named
\* when the request arrived (JWTAuth itself never reads the table)
RowsOfSubject(tok) ==
    IF tok.id.kind = "num" THEN {u \in users : u.id = tok.id.val} ELSE {}

\* A request arrives and JWTAuth runs on it.
JWTAuth(hdr, perm) ==
    /\ req.pc \in {"idle", "done"}
    /\ LET r0 == [NewRequest(hdr, perm) EXCEPT !.stages = {"JWTAuth"}, !.jwtAt = now,
                                              !.seenExpired = hdr.tok \in expired,
                                              !.subjectRows = RowsOfSubject(hdr.tok)]
           res == Parse(hdr.tok, JwtSecret, now)
       IN  req' =
             IF ~HasPrefix(hdr.scheme, bearerPrefix)
             THEN HttpError(r0, "JWTAuth", 401, "Missing or invalid Authorization header", "")
             ELSE IF res = "expired"
             THEN HttpError(r0, "JWTAuth", 401, "Token is expired", "")
             ELSE IF res # "ok"
             THEN HttpError(r0, "JWTAuth", 401, "Invalid token: ", res)
             ELSE IF hdr.tok.exp.kind = "num" /\ hdr.tok.exp.val < now
             THEN HttpError(r0, "JWTAuth", 401, "Token is expired", "")
             ELSE [r0 EXCEPT !.pc = "auth",
                             !.claims = [set |-> TRUE, id |-> hdr.tok.id,
                                         exp |-> hdr.tok.exp]]
    /\ expired' = IF req'.by = "JWTAuth" /\ req'.body = "Token is expired"
                  THEN expired \cup {hdr.tok}
                  ELSE expired
    /\ snap' = NoSnap
    /\ UNCHANGED <<now, userRoles, rolePerms, lastOp, opCount, dirty, permsSet>>
    /\ UNCHANGED account

\* middleware.GetUserClaims
GetUserClaims(r) == r.claims

(***************************** AuthRequired *********************************)
AuthRequired ==
    /\ req.pc = "auth"
    /\ LET r0 == [req EXCEPT !.stages = @ \cup {"AuthRequired"}]
       IN  req' =
             IF ~r0.claims.set
             THEN HttpError(r0, "AuthRequired", 401, "unauthorized", "")
             ELSE IF r0.claims.exp.kind = "num" /\ r0.claims.exp.val < now
             THEN HttpError(r0, "AuthRequired", 401, "token expired", "")
             ELSE [r0 EXCEPT !.pc = "rbac"]
    /\ UNCHANGED <<now, userRoles, rolePerms, lastOp, opCount, dirty, permsSet>>
    /\ UNCHANGED <<expired, snap>>
    /\ UNCHANGED account

(***************************** repositories *********************************)
\* userRoleRepository.GetRolesByUserID: the role ids of the rows of user_roles
\* with this user_id
GetRolesIgnoringUser(userID) == {ur[2] : ur \in userRoles}

GetRolesByUserID(userID) == {ur[2] : ur \in {x \in userRoles : x[1] = userID}}

\* rolePermissionRepository.GetPermissionsByRoleID: the permission names joined
\* to the rows of role_permissions with this role_id
GetPermissionsByRoleID(roleID) ==
    {PermissionName[rp[2]] : rp \in {x \in rolePerms : x[1] = roleID}}

\* the union, over the roles assigned to s, of the granted names, lower-cased
EffectivePermissions(s) ==
    UNION { {ToLower(PermissionName[pid]) : pid \in {x \in PermIDs : <<r, x>> \in rolePerms}}
            : r \in {x \in Roles : <<s, x>> \in userRoles} }

\* some role now assigned to s is granted a permission whose lower-cased
\* name is the lower-cased permissionName
GrantedNow(s, permissionName) ==
    ToLower(permissionName) \in EffectivePermissions(s)

SnapAtLookup(userID, permissionName) ==
    [held |-> GrantedNow(userID, permissionName),
     lacked |-> ~GrantedNow(userID, permissionName)]

SnapAfterWrite ==
    IF req.pc = "loop"
    THEN [held |-> snap.held \/ GrantedNow(req.userID, req.perm)',
          lacked |-> snap.lacked \/ ~GrantedNow(req.userID, req.perm)']
    ELSE snap

\* a repository write that changed a row
Wrote(kind, a, b) ==
    /\ opCount < MaxOps
    /\ opCount' = opCount + 1
    /\ lastOp' = [kind |-> kind, a |-> a, b |-> b]
    /\ dirty' = TRUE

\* INSERT without a conflict clause: a row whose primary key is present is
\* refused with an error
InsertPlain(table, row) ==
    IF row \in table
    THEN [rows |-> table, err |-> TRUE]
    ELSE [rows |-> table \cup {row}, err |-> FALSE]

\* INSERT ... ON CONFLICT (primary key) DO NOTHING: a row whose primary key is
\* present is skipped without an error
InsertOnConflictDoNothing(table, row) ==
    IF row \in table
    THEN [rows |-> table, err |-> FALSE]
    ELSE [rows |-> table \cup {row}, err |-> FALSE]

\* DELETE ... WHERE primary key = row: deleting no row is no error
DeleteWhere(table, row) ==
    [rows |-> {x \in table : x # row}, err |-> FALSE]

AssignRoleReplacing(userID, roleID) ==
    {x \in userRoles : x[1] # userID} \cup {<<userID, roleID>>}

\* INSERT INTO user_roles ... ON CONFLICT (user_id, role_id) DO NOTHING
AssignRoleRows(userID, roleID) ==
    InsertOnConflictDoNothing(userRoles, <<userID, roleID>>).rows

\* the error userRoleRepository.AssignRole returns
AssignRoleErr(userID, roleID) ==
    InsertOnConflictDoNothing(userRoles, <<userID, roleID>>).err

RemoveRoleNothing(userID, roleID) == userRoles

\* DELETE FROM user_roles WHERE user_id = $1 AND role_id = $2
RemoveRoleRows(userID, roleID) == DeleteWhere(userRoles, <<userID, roleID>>).rows

\* the error userRoleRepository.RemoveRole returns
RemoveRoleErr(userID, roleID) == DeleteWhere(userRoles, <<userID, roleID>>).err

\* INSERT INTO role_permissions ... ON CONFLICT (role_id, permission_id) DO NOTHING
AssignPermissionRows(roleID, permissionID) ==
    InsertOnConflictDoNothing(rolePerms, <<roleID, permissionID>>).rows

\* the error rolePermissionRepository.AssignPermission returns
AssignPermissionErr(roleID, permissionID) ==
    InsertOnConflictDoNothing(rolePerms, <<roleID, permissionID>>).err

\* DELETE FROM role_permissions WHERE role_id = $1 AND permission_id = $2
RemovePermissionRows(roleID, permissionID) ==
    DeleteWhere(rolePerms, <<roleID, permissionID>>).rows

\* the error rolePermissionRepository.RemovePermission returns
RemovePermissionErr(roleID, permissionID) ==
    DeleteWhere(rolePerms, <<roleID, permissionID>>).err

AssignRole(userID, roleID) ==
    /\ userRoles' = AssignRoleRows(userID, roleID)
    /\ IF userRoles' # userRoles
       THEN Wrote("AssignRole", userID, roleID)
       ELSE UNCHANGED <<opCount, lastOp, dirty>>
    /\ UNCHANGED <<now, rolePerms, permsSet, req, expired>>
    /\ UNCHANGED account
    /\ snap' = SnapAfterWrite

RemoveRole(userID, roleID) ==
    /\ userRoles' = RemoveRoleRows(userID, roleID)
    /\ IF userRoles' # userRoles
       THEN Wrote("RemoveRole", userID, roleID)
       ELSE UNCHANGED <<opCount, lastOp, dirty>>
    /\ UNCHANGED <<now, rolePerms, permsSet, req, expired>>
    /\ UNCHANGED account
    /\ snap' = SnapAfterWrite

AssignPermission(roleID, permissionID) ==
    /\ rolePerms' = AssignPermissionRows(roleID, permissionID)
    /\ IF rolePerms' # rolePerms
       THEN Wrote("AssignPermission", roleID, permissionID)
       ELSE UNCHANGED <<opCount, lastOp, dirty>>
    /\ UNCHANGED <<now, userRoles, permsSet, req, expired>>
    /\ UNCHANGED account
    /\ snap' = SnapAfterWrite

RemovePermission(roleID, permissionID) ==
    /\ rolePerms' = RemovePermissionRows(roleID, permissionID)
    /\ IF rolePerms' # rolePerms
       THEN Wrote("RemovePermission", roleID, permissionID)
       ELSE UNCHANGED <<opCount, lastOp, dirty>>
    /\ UNCHANGED <<now, userRoles, permsSet, req, expired>>
    /\ UNCHANGED account
    /\ snap' = SnapAfterWrite

(***************************** RequirePermission ****************************)
UserIDOfInt64Only(idClaim) == 0

\* the type switch on the id claim: int64 and float64 give the number,
\* any other type leaves userID at its zero value
UserIDOf(idClaim) == IF idClaim.kind = "num" THEN idClaim.val ELSE 0

HasIDClaimAlways(claims) == TRUE

\* idClaim, ok := claims["id"] on the claims of the context (a nil map when
\* nothing was attached)
HasIDClaim(claims) == claims.set /\ claims.id.kind # "absent"

LookupFailedRetried(r) == [r EXCEPT !.pc = "rbac"]

LookupFailedAsDenied(r) ==
    RenderError(r, "RequirePermission", 403, "permission denied")

\* if err != nil { WriteHeader(500); render.JSON(response.Error("internal error")); return }
LookupFailed(r) == RenderError(r, "RequirePermission", 500, "internal error")

KeepPermsSet == permsSet

\* permsSet := make(map[string]struct{})
MakePermsSet == {}

\* First part of the guard: read the id claim, then look up the roles.
RequirePermission ==
    /\ req.pc = "rbac"
    /\ LET r0 == [req EXCEPT !.stages = @ \cup {"RequirePermission"}]
           claims == GetUserClaims(r0)
           ok == HasIDClaim(claims)
           userID == UserIDOf(claims.id)
       IN  IF ~ok
           THEN /\ req' = RenderError(r0, "RequirePermission", 401, "unauthorized")
                /\ UNCHANGED <<permsSet, dirty, snap>>
           ELSE \E dbOk \in BOOLEAN :
                  IF ~dbOk
                  THEN /\ req' = LookupFailed([r0 EXCEPT !.userID = userID,
                                                         !.lookups = @ + 1,
                                                         !.dbErr = TRUE])
                       /\ UNCHANGED <<permsSet, dirty, snap>>
                  ELSE /\ req' = [r0 EXCEPT !.pc = "loop", !.userID = userID,
                                            !.lookups = @ + 1, !.rolesRead = TRUE,
                                            !.roles = GetRolesByUserID(userID)]
                       /\ permsSet' = MakePermsSet
                       /\ dirty' = FALSE
                       /\ snap' = SnapAtLookup(userID, r0.perm)
    /\ UNCHANGED <<now, userRoles, rolePerms, lastOp, opCount, expired>>
    /\ UNCHANGED account

PermsOfRoleOnly(old, perms) == {ToLower(n) : n \in perms}

\* for _, perm := range perms { permsSet[strings.ToLower(perm.PermissionName)] = struct{}{} }
AddPerms(old, perms) == old \cup {ToLower(n) : n \in perms}

\* One iteration of the loop over the roles: one GetPermissionsByRoleID call.
RoleLoop ==
    /\ req.pc = "loop"
    /\ req.roles # {}
    /\ \E role \in req.roles, dbOk \in BOOLEAN :
         IF ~dbOk
         THEN /\ req' = LookupFailed([req EXCEPT !.lookups = @ + 1, !.dbErr = TRUE])
              /\ UNCHANGED permsSet
         ELSE /\ req' = [req EXCEPT !.lookups = @ + 1, !.roles = @ \ {role}]
              /\ permsSet' = AddPerms(permsSet, GetPermissionsByRoleID(role))
    /\ UNCHANGED <<now, userRoles, rolePerms, lastOp, opCount, dirty>>
    /\ UNCHANGED <<expired, snap>>
    /\ UNCHANGED account

HoldsAnything(set, permissionName) == TRUE

HoldsOrEmpty(set, permissionName) ==
    set = {} \/ ToLower(permissionName) \in set

\* _, ok := permsSet[strings.ToLower(permissionName)]
Holds(set, permissionName) == ToLower(permissionName) \in set

DecideAudited ==
    /\ req.pc = "loop"
    /\ req.roles = {}
    /\ req' = IF ~Holds(permsSet, req.perm)
              THEN RenderError(req, "RequirePermission", 403, "permission denied")
              ELSE [req EXCEPT !.pc = "handler"]
    /\ auditLog' = IF ~Holds(permsSet, req.perm)
                   THEN << [user |-> req.userID, table |-> "user", row |-> 0,
                            action |-> "DENIED"] >>
                   ELSE auditLog
    /\ UNCHANGED <<now, userRoles, rolePerms, lastOp, opCount, dirty, permsSet>>
    /\ UNCHANGED <<expired, snap>>
    /\ UNCHANGED <<users, userSeq, issued, resp, pending>>

\* After the loop: 403, or next.ServeHTTP.
Decide ==
    /\ req.pc = "loop"
    /\ req.roles = {}
    /\ req' = IF ~Holds(permsSet, req.perm)
              THEN RenderError(req, "RequirePermission", 403, "permission denied")
              ELSE [req EXCEPT !.pc = "handler"]
    /\ UNCHANGED <<now, userRoles, rolePerms, lastOp, opCount, dirty, permsSet>>
    /\ UNCHANGED <<expired, snap>>
    /\ UNCHANGED account

\* The wrapped resource handler runs and answers.
ServeHandler ==
    /\ req.pc = "handler"
    /\ req' = [req EXCEPT !.pc = "done", !.ran = TRUE, !.status = 200,
                          !.ctype = "application/json", !.by = "handler",
                          !.stages = @ \cup {"handler"}]
    /\ UNCHANGED <<now, userRoles, rolePerms, lastOp, opCount, dirty, permsSet>>
    /\ UNCHANGED <<expired, snap>>
    /\ UNCHANGED account

\* the clock advances
Tick ==
    /\ now < MaxTime
    /\ now' = now + 1
    /\ UNCHANGED <<userRoles, rolePerms, lastOp, opCount, dirty, permsSet, req>>
    /\ UNCHANGED <<expired, snap>>
    /\ UNCHANGED account

(***************************** account handlers *****************************)
\* the state that only the middleware chain and the role repositories change
gate == <<now, userRoles, rolePerms, lastOp, opCount, dirty, permsSet, req,
          expired, snap>>

\* w.WriteHeader(status); render.JSON(w, r, ...)
Answer(op, status, body) ==
    [NoResponse EXCEPT !.op = op, !.status = status, !.body = body]

\* render.JSON(w, r, map[string]string{"token": token})
AnswerToken(op, tok, id) ==
    [NoResponse EXCEPT !.op = op, !.status = 200, !.body = "token",
                       !.tok = tok, !.row = id]

\* UserRepository.GetClientByEmail: the rows of table user with this e-mail
GetClientByEmail(email) == {u \in users : u.email = email}

\* UserRepository.GetClientByID
GetClientByID(id) == {u \in users : u.id = id}

\* the UNIQUE constraint on user.email rejects the row
EmailTaken(id, email) == \E u \in users : u.id # id /\ u.email = email

\* the lifetime handed to NewToken by the AuthHandler with the route comments
LifetimeConst == Hours(24)

\* the lifetime handed to NewToken by the AuthHandler kept beside the
\* user-role handler: time.Duration(time.Duration.Hours(24)), where
\* time.Duration.Hours(24) is the method Hours applied to a Duration of 24 ns
LifetimeOfHoursCall == DurationOfHours(Nanoseconds(24))

AuthHandlerLifetimes == {LifetimeConst, LifetimeOfHoursCall}

\* the record of a token handed out
Issue(tok, by, id, lifetime) ==
    [tok |-> tok, at |-> now, by |-> by, uid |-> id, lifetime |-> lifetime]

\* one server runs one AuthHandler: every token it hands out gets the same lifetime
SameBuild(lifetime) == \A i \in issued : i.lifetime = lifetime

\* AuthHandler.Register: the lookup that guards the insert. The handler
\* tests only existingUser != nil, so a lookup that failed counts as "no such user"
ExistingUser(email, lookupOk) == IF lookupOk THEN GetClientByEmail(email) ELSE {}

\* UserRepository.CreateClient under the UNIQUE constraint on user.email
CreateClientFails(email, dbOk) ==
    ~dbOk \/ EmailTaken(0, email) \/ userSeq >= MaxUserID

\* AuthHandler.Register from the hash to the answer
RegisterInsert(email, password, lifetime, dbOk) ==
    IF CreateClientFails(email, dbOk)
    THEN /\ resp' = Answer("Register", 500, "internal error")
         /\ UNCHANGED <<users, userSeq, issued>>
    ELSE LET id == userSeq + 1
             user == [id |-> id, email |-> email,
                      password |-> GenerateFromPassword(password)]
             tok == NewToken(id, lifetime, JwtSecret, now)
         IN  /\ users' = users \cup {user}
             /\ userSeq' = id
             /\ issued' = issued \cup {Issue(tok, "Register", id, lifetime)}
             /\ resp' = AnswerToken("Register", tok, id)

\* AuthHandler.Register, served with no other request in between
Register(email, password, lifetime) ==
    /\ Cardinality(issued) < MaxIssued
    /\ SameBuild(lifetime)
    /\ IF email = "" \/ password = ""
       THEN /\ resp' = Answer("Register", 400, "email and password required")
            /\ UNCHANGED <<users, userSeq, issued>>
       ELSE \E lookupOk, dbOk \in BOOLEAN :
              IF ExistingUser(email, lookupOk) # {}
              THEN /\ resp' = Answer("Register", 409, "email already exists")
                   /\ UNCHANGED <<users, userSeq, issued>>
              ELSE RegisterInsert(email, password, lifetime, dbOk)
    /\ UNCHANGED <<auditLog, pending>>
    /\ UNCHANGED gate

\* AuthHandler.Register up to its lookup: a request that found no user with
\* its email goes on to the insert, and other requests may run before it does
RegisterLookup(email, password) ==
    /\ Cardinality(pending) < MaxPending
    /\ IF email = "" \/ password = ""
       THEN /\ resp' = Answer("Register", 400, "email and password required")
            /\ UNCHANGED pending
       ELSE \E lookupOk \in BOOLEAN :
              IF ExistingUser(email, lookupOk) # {}
              THEN /\ resp' = Answer("Register", 409, "email already exists")
                   /\ UNCHANGED pending
              ELSE LET rid == CHOOSE n \in 1..MaxPending :
                                 \A p \in pending : p.rid # n
                   IN  /\ pending' = pending \cup
                              {[rid |-> rid, email |-> email, password |-> password]}
                       /\ UNCHANGED resp
    /\ UNCHANGED <<users, userSeq, issued, auditLog>>
    /\ UNCHANGED gate

\* AuthHandler.Register from its insert on, for a request past its lookup
RegisterCreate(p, lifetime) ==
    /\ p \in pending
    /\ Cardinality(issued) < MaxIssued
    /\ SameBuild(lifetime)
    /\ \E dbOk \in BOOLEAN : RegisterInsert(p.email, p.password, lifetime, dbOk)
    /\ pending' = pending \ {p}
    /\ UNCHANGED auditLog
    /\ UNCHANGED gate

\* AuthHandler.Login
Login(email, password, lifetime) ==
    /\ Cardinality(issued) < MaxIssued
    /\ SameBuild(lifetime)
    /\ \E dbOk \in BOOLEAN :
         LET found == IF dbOk THEN GetClientByEmail(email) ELSE {}
         IN  IF found = {}
             THEN /\ resp' = Answer("Login", 401, "invalid credentials")
                  /\ UNCHANGED issued
             ELSE LET user == CHOOSE u \in found : TRUE
                      tok == NewToken(user.id, lifetime, JwtSecret, now)
                  IN  IF ~CompareHashAndPassword(user.password, password)
                      THEN /\ resp' = Answer("Login", 401, "invalid credentials")
                           /\ UNCHANGED issued
                      ELSE /\ issued' = issued \cup {Issue(tok, "Login", user.id, lifetime)}
                           /\ resp' = AnswerToken("Login", tok, user.id)
    /\ UNCHANGED <<users, userSeq, auditLog, pending>>
    /\ UNCHANGED gate

\* AuthHandler.Login from the request body on: a body that is not JSON is
\* answered 400 before anything is looked up
LoginHandler(body, lifetime) ==
    IF DOMAIN body # {"email", "password"}
    THEN /\ Cardinality(issued) < MaxIssued
         /\ resp' = Answer("Login", 400, "invalid request")
         /\ UNCHANGED <<users, userSeq, issued, auditLog, pending>>
         /\ UNCHANGED gate
    ELSE Login(body.email, body.password, lifetime)

(***************************** user handlers ********************************)
\* request bodies of CreateUser and UpdateUser, decoded into models.User
UserBodies ==
    { [email |-> e, password |-> RawPassword("pw2")] : e \in {"ann@x", "new@x"} }

\* a request body that json.Decode rejects
Undecodable == [text |-> "{"]

\* json.NewDecoder(r.Body).Decode(&user) returns nil
Decodes(body) == DOMAIN body = {"email", "password"}

RequestBodies == UserBodies \cup {Undecodable}

\* the {id} of the path: decimal numerals, and a text that is no number
Numerals == <<"1", "2", "3", "4", "5", "6", "7", "8", "9">>

Itoa(n) == Numerals[n]

\* strconv.ParseInt(idStr, 10, 64)
ParseInt(idStr) ==
    IF \E n \in DOMAIN Numerals : Numerals[n] = idStr
    THEN [ok |-> TRUE, val |-> CHOOSE n \in DOMAIN Numerals : Numerals[n] = idStr]
    ELSE [ok |-> FALSE, val |-> 0]

PathIDs == {Itoa(n) : n \in 1..MaxUserID} \cup {"abc"}

\* context keys: a key is its Go type together with its value, so the typed
\* contextKey("user") of JWTAuth and a plain string are never the same key
userCtxKey == [type |-> "contextKey", name |-> "user"]
UserIDKey == [type |-> "string", name |-> "user_id"]

\* r.Context() as the handler sees it: the one value the chain stores is the
\* claims map that JWTAuth put under userCtxKey
Context(r) ==
    IF r.claims.set
    THEN {[key |-> userCtxKey, type |-> "MapClaims", val |-> r.claims.id]}
    ELSE {}

\* ctx.Value(key): the values stored under that key
Value(ctx, key) == {e \in ctx : e.key = key}

\* utils.GetUserIDFromContext: the context value "user_id" when it is an int64
\* or a numeral string; 0 stands for the nil pointer
GetUserIDFromContext(ctx) ==
    LET found == Value(ctx, UserIDKey)
    IN  IF found = {} THEN 0
        ELSE LET e == CHOOSE x \in found : TRUE
             IN  IF e.type \in {"int64", "string"} /\ e.val.kind = "num"
                 THEN e.val.val
                 ELSE 0

\* the audit record a handler builds for the request it serves
AuditEntry(tableName, rowID, actionType) ==
    [user |-> GetUserIDFromContext(Context(req)), table |-> tableName,
     row |-> rowID, action |-> actionType]

\* AuditLogRepository.AddAuditLog: the INSERT, when it succeeds
AddAuditLog(log, entry, auditOk) == IF auditOk THEN Append(log, entry) ELSE log

ReturnOnError(answer, auditErr) ==
    IF auditErr
    THEN [answer EXCEPT !.status = 500, !.body = "internal error", !.auditErr = TRUE]
    ELSE answer

\* _ = h.auditRepo.AddAuditLog(...): the error is dropped and the handler goes
\* on to answer (auditErr is kept as history only)
DiscardError(answer, auditErr) == [answer EXCEPT !.auditErr = auditErr]

\* the three outcomes of a handler: the tables and the answer
Outcome(rows, seq, log, answer) ==
    [users |-> rows, userSeq |-> seq, auditLog |-> log, resp |-> answer]

\* UserHandler.CreateUser
CreateUserOutcome(body, dbOk, auditOk) ==
    LET id == userSeq + 1
        user == [id |-> id, email |-> body.email, password |-> body.password]
    IN  IF ~Decodes(body)
        THEN Outcome(users, userSeq, auditLog,
                     Answer("CreateUser", 400, "invalid request"))
        ELSE IF ~dbOk \/ EmailTaken(id, body.email) \/ userSeq >= MaxUserID
        THEN Outcome(users, userSeq, auditLog,
                     Answer("CreateUser", 500, "failed to create user"))
        ELSE Outcome(users \cup {user}, id,
                     AddAuditLog(auditLog, AuditEntry("user", id, "INSERT"), auditOk),
                     DiscardError([Answer("CreateUser", 201, "user") EXCEPT !.row = id],
                                  ~auditOk))

\* UPDATE user SET ... WHERE user_id = ?
UpdateClientRows(user) ==
    IF GetClientByID(user.id) = {} THEN users
    ELSE {u \in users : u.id # user.id} \cup {user}

\* UserHandler.UpdateUser
UpdateUserOutcome(id, body, dbOk, auditOk) ==
    LET user == [id |-> id, email |-> body.email, password |-> body.password]
    IN  IF ~Decodes(body)
        THEN Outcome(users, userSeq, auditLog,
                     Answer("UpdateUser", 400, "invalid request"))
        ELSE IF ~dbOk \/ (GetClientByID(id) # {} /\ EmailTaken(id, body.email))
        THEN Outcome(users, userSeq, auditLog,
                     Answer("UpdateUser", 500, "failed to update user"))
        ELSE Outcome(UpdateClientRows(user), userSeq,
                     AddAuditLog(auditLog, AuditEntry("user", id, "UPDATE"), auditOk),
                     DiscardError([Answer("UpdateUser", 200, "user") EXCEPT !.row = id],
                                  ~auditOk))

\* DELETE FROM user WHERE user_id = ?
DeleteClientRows(id) == {u \in users : u.id # id}

\* the FOREIGN KEY of user_roles on user(user_id) rejects the DELETE
ReferencedByRole(id) == \E ur \in userRoles : ur[1] = id

DeleteUserAuditedFirst(id, dbOk, auditOk) ==
    IF ~dbOk \/ ReferencedByRole(id)
    THEN Outcome(users, userSeq,
                 AddAuditLog(auditLog, AuditEntry("user", id, "DELETE"), auditOk),
                 Answer("DeleteUser", 500, "failed to delete user"))
    ELSE Outcome(DeleteClientRows(id), userSeq,
                 AddAuditLog(auditLog, AuditEntry("user", id, "DELETE"), auditOk),
                 DiscardError([Answer("DeleteUser", 204, "") EXCEPT !.row = id],
                              ~auditOk))

\* UserHandler.DeleteUser
DeleteUserOutcome(id, dbOk, auditOk) ==
    IF ~dbOk \/ ReferencedByRole(id)
    THEN Outcome(users, userSeq, auditLog,
                 Answer("DeleteUser", 500, "failed to delete user"))
    ELSE Outcome(DeleteClientRows(id), userSeq,
                 AddAuditLog(auditLog, AuditEntry("user", id, "DELETE"), auditOk),
                 DiscardError([Answer("DeleteUser", 204, "") EXCEPT !.row = id],
                              ~auditOk))

\* the handler has run: its outcome becomes the state
Becomes(outcome) ==
    /\ users' = outcome.users
    /\ userSeq' = outcome.userSeq
    /\ auditLog' = outcome.auditLog
    /\ resp' = outcome.resp
    /\ UNCHANGED <<issued, pending>>
    /\ UNCHANGED gate

\* a handler that runs behind the guard, for the request the guard let through
Serves(outcome) ==
    /\ req.pc = "handler"
    /\ users' = outcome.users
    /\ userSeq' = outcome.userSeq
    /\ auditLog' = outcome.auditLog
    /\ resp' = outcome.resp
    /\ req' = Handled(req, outcome.resp.op, outcome.resp.status, outcome.resp.body)
    /\ UNCHANGED <<now, userRoles, rolePerms, lastOp, opCount, dirty, permsSet>>
    /\ UNCHANGED <<expired, snap>>
    /\ UNCHANGED <<issued, pending>>

CreateUser(body) ==
    /\ Len(auditLog) < MaxAudit
    /\ \E dbOk \in BOOLEAN, auditOk \in BOOLEAN :
         Becomes(CreateUserOutcome(body, dbOk, auditOk))

UpdateUser(idStr, body) ==
    /\ Len(auditLog) < MaxAudit
    /\ LET id == ParseInt(idStr)
       IN  IF ~id.ok
           THEN Becomes(Outcome(users, userSeq, auditLog,
                                Answer("UpdateUser", 400, "invalid request")))
           ELSE \E dbOk \in BOOLEAN, auditOk \in BOOLEAN :
                  Becomes(UpdateUserOutcome(id.val, body, dbOk, auditOk))

\* PUT /api/v1/users/{id}: UserHandler.UpdateUser at the end of the chain
UpdateUserRoute(idStr, body) ==
    /\ Len(auditLog) < MaxAudit
    /\ LET id == ParseInt(idStr)
       IN  IF ~id.ok
           THEN Serves(Outcome(users, userSeq, auditLog,
                               Answer("UpdateUser", 400, "invalid request")))
           ELSE \E dbOk \in BOOLEAN, auditOk \in BOOLEAN :
                  Serves(UpdateUserOutcome(id.val, body, dbOk, auditOk))

DeleteUser(idStr) ==
    /\ Len(auditLog) < MaxAudit
    /\ LET id == ParseInt(idStr)
       IN  IF ~id.ok
           THEN Becomes(Outcome(users, userSeq, auditLog,
                                Answer("DeleteUser", 400, "invalid user id")))
           ELSE \E dbOk \in BOOLEAN, auditOk \in BOOLEAN :
                  Becomes(DeleteUserOutcome(id.val, dbOk, auditOk))

(***************************** teacher handlers *****************************)
\* rows of table teacher (user_id)
Teachers == {2}

TeacherBodies == {[phone |-> "555"], Undecodable}

DecodesTeacher(body) == DOMAIN body = {"phone"}

\* the Go type of a claim of the jwt.MapClaims that jwt.Parse attached:
\* encoding/json decodes every JSON number into a float64
GoTypeOf(claim) ==
    CASE claim.kind = "num" -> "float64"
      [] claim.kind = "str" -> "string"
      [] OTHER -> "nil"

\* claims["id"].(int64): the one-value type assertion panics unless the
\* dynamic type is int64
AssertInt64(claim) ==
    IF GoTypeOf(claim) = "int64"
    THEN [panic |-> FALSE, val |-> claim.val]
    ELSE [panic |-> TRUE, val |-> 0]

\* middleware.Recoverer of chi: the panic is caught and 500 is written
Recoverer(r) ==
    [r EXCEPT !.pc = "done", !.ran = TRUE, !.status = 500, !.ctype = "",
              !.body = "", !.by = "Recoverer", !.stages = @ \cup {"handler"}]

\* TeacherHandler.GetMyTeacherProfile, behind RequirePermission
GetMyTeacherProfile ==
    /\ req.pc = "handler"
    /\ LET claims == GetUserClaims(req)
           teacherId == AssertInt64(claims.id)
           op == "GetMyTeacherProfile"
       IN  IF teacherId.panic
           THEN /\ req' = Recoverer(req)
                /\ resp' = Answer(op, 500, "")
           ELSE \E dbOk \in BOOLEAN :
                  IF ~dbOk
                  THEN /\ req' = Handled(req, op, 500, "failed to get teacher")
                       /\ resp' = Answer(op, 500, "failed to get teacher")
                  ELSE IF teacherId.val \notin Teachers
                  THEN /\ req' = Handled(req, op, 404, "teacher not found")
                       /\ resp' = Answer(op, 404, "teacher not found")
                  ELSE /\ req' = Handled(req, op, 200, "teacher")
                       /\ resp' = [Answer(op, 200, "teacher") EXCEPT !.row = teacherId.val]
    /\ UNCHANGED <<now, userRoles, rolePerms, lastOp, opCount, dirty, permsSet>>
    /\ UNCHANGED <<expired, snap>>
    /\ UNCHANGED <<users, userSeq, issued, auditLog, pending>>

\* TeacherHandler.UpdateMyTeacherProfile, behind RequirePermission
UpdateMyTeacherProfile(body) ==
    /\ req.pc = "handler"
    /\ Len(auditLog) < MaxAudit
    /\ LET claims == GetUserClaims(req)
           teacherId == AssertInt64(claims.id)
           op == "UpdateMyTeacherProfile"
       IN  IF teacherId.panic
           THEN /\ req' = Recoverer(req)
                /\ resp' = Answer(op, 500, "")
                /\ UNCHANGED auditLog
           ELSE IF ~DecodesTeacher(body)
           THEN /\ req' = Handled(req, op, 400, "invalid request")
                /\ resp' = Answer(op, 400, "invalid request")
                /\ UNCHANGED auditLog
           ELSE \E dbOk \in BOOLEAN, auditOk \in BOOLEAN :
                  IF ~dbOk
                  THEN /\ req' = Handled(req, op, 500, "failed to update user")
                       /\ resp' = Answer(op, 500, "failed to update user")
                       /\ UNCHANGED auditLog
                  ELSE /\ req' = Handled(req, op, 200, "teacher")
                       /\ resp' = DiscardError(
                                     [Answer(op, 200, "teacher") EXCEPT !.row = teacherId.val],
                                     ~auditOk)
                       /\ auditLog' = AddAuditLog(auditLog,
                                         AuditEntry("teacher", teacherId.val, "UPDATE"),
                                         auditOk)
    /\ UNCHANGED <<now, userRoles, rolePerms, lastOp, opCount, dirty, permsSet>>
    /\ UNCHANGED <<expired, snap>>
    /\ UNCHANGED <<users, userSeq, issued, pending>>

(***************************** specifications *******************************)
Pipeline ==
    \/ AuthRequired
    \/ RequirePermission
    \/ RoleLoop
    \/ Decide
    \/ ServeHandler

\* requests interleaved with changes to the role graph
Next ==
    \/ \E hdr \in GraphHeaders, perm \in GatePerms : JWTAuth(hdr, perm)
    \/ Pipeline
    \/ \E u \in Users, r \in Roles : AssignRole(u, r)
    \/ \E u \in Users, r \in Roles : RemoveRole(u, r)
    \/ \E r \in Roles, p \in PermIDs : AssignPermission(r, p)
    \/ \E r \in Roles, p \in PermIDs : RemovePermission(r, p)

Spec == Init /\ [][Next]_vars

\* every kind of header, with the clock running, on the seeded role graph
NextAuth ==
    \/ \E hdr \in Headers, perm \in GatePerms : JWTAuth(hdr, perm)
    \/ Pipeline
    \/ Tick

SpecAuth == Init /\ [][NextAuth]_vars

\* the repository writes alone
NextGraph ==
    \/ \E u \in Users, r \in Roles : AssignRole(u, r)
    \/ \E u \in Users, r \in Roles : RemoveRole(u, r)
    \/ \E r \in Roles, p \in PermIDs : AssignPermission(r, p)
    \/ \E r \in Roles, p \in PermIDs : RemovePermission(r, p)

SpecGraph == Init /\ [][NextGraph]_vars

\* accounts and the tokens handed out to them, with the clock running;
\* requests carry the tokens that were handed out
NextAccount ==
    \/ \E email \in Emails, password \in Passwords, lifetime \in AuthHandlerLifetimes :
          Register(email, password, lifetime)
    \/ \E email \in Emails, password \in Passwords, lifetime \in AuthHandlerLifetimes :
          Login(email, password, lifetime)
    \/ \E i \in issued : JWTAuth(Header(bearerPrefix, i.tok), StrUserList)
    \/ Pipeline
    \/ \E u \in {x.uid : x \in issued} : AssignRole(u, AdminRole)
    \/ Tick

SpecAccount == Init /\ [][NextAccount]_vars

\* the user handlers on the table user, with role assignments that the
\* foreign key of user_roles ties to it
NextUsers ==
    \/ \E body \in RequestBodies : CreateUser(body)
    \/ \E idStr \in PathIDs, body \in RequestBodies : UpdateUser(idStr, body)
    \/ \E idStr \in PathIDs : DeleteUser(idStr)
    \/ \E u \in {x.id : x \in users} : AssignRole(u, AdminRole)
    \/ \E u \in 1..MaxUserID : RemoveRole(u, AdminRole)

SpecUsers == Init /\ [][NextUsers]_vars

\* the subject of a token while the server changes everything it stores about
\* that subject: the user row, the password, the roles, further logins
Subject == 1

SubjectHeaders ==
    {Header(bearerPrefix, NewToken(Subject, Seconds(1), JwtSecret, 0))}
        \cup {Header(bearerPrefix, i.tok) : i \in issued}

NextStateless ==
    \/ \E hdr \in SubjectHeaders : JWTAuth(hdr, StrUserList)
    \/ Pipeline
    \/ Login("ann@x", "pw1", LifetimeConst)
    \/ \E body \in {b \in UserBodies : b.email = "ann@x"} :
          UpdateUser(Itoa(Subject), body)
    \/ DeleteUser(Itoa(Subject))
    \/ AssignRole(Subject, AdminRole)
    \/ Tick

SpecStateless == Init /\ [][NextStateless]_vars

\* one subject's requests to completion: the server runs every stage of a
\* request that has started (net/http calls the chain in one goroutine and
\* every storage call returns), while roles are assigned to the subject and
\* the clock runs
NextLive ==
    \/ \E hdr \in GraphHeaders : JWTAuth(hdr, StrUserList)
    \/ Pipeline
    \/ \E r \in Roles : AssignRole(Subject, r)
    \/ Tick

SpecLive == Init /\ [][NextLive]_vars /\ WF_vars(Pipeline)

\* the routes GET and PUT /api/v1/teacher/me: the chain with the two handlers
\* that read the subject id from the claims (the guard treats every
\* permission name alike; the route's name is not among the kept ones)
NextSelf ==
    \/ \E hdr \in Headers : JWTAuth(hdr, StrUserList)
    \/ AuthRequired
    \/ RequirePermission
    \/ RoleLoop
    \/ Decide
    \/ GetMyTeacherProfile
    \/ \E body \in TeacherBodies : UpdateMyTeacherProfile(body)
    \/ Tick

SpecSelf == Init /\ [][NextSelf]_vars

\* guarded requests next to the audited handlers of table user
AuditHeaders ==
    {NoHeader, Header(bearerPrefix, NewToken(Subject, Seconds(MaxTime), JwtSecret, 0))}

NextAudit ==
    \/ \E hdr \in AuditHeaders : JWTAuth(hdr, StrUserList)
    \/ Pipeline
    \/ AssignRole(Subject, AdminRole)
    \/ \E body \in RequestBodies : CreateUser(body)
    \/ \E idStr \in {Itoa(Subject), "abc"}, body \in RequestBodies : UpdateUser(idStr, body)
    \/ \E idStr \in {Itoa(Subject), Itoa(MaxUserID), "abc"} : DeleteUser(idStr)

SpecAudit == Init /\ [][NextAudit]_vars

\* Register requests served concurrently: each request's lookup and insert
\* are separate steps, and any other request may run between them
NextRace ==
    \/ \E email \in Emails, password \in Passwords : RegisterLookup(email, password)
    \/ \E p \in pending : RegisterCreate(p, LifetimeConst)
    \/ \E email \in Emails, password \in Passwords :
          Login(email, password, LifetimeConst)
    \/ Tick

SpecRace == Init /\ [][NextRace]_vars

\* the route PUT /api/v1/users/{id} with its whole chain. The guard treats
\* every permission name alike, so the name of the route is the seeded one
RouteHeaders ==
    {NoHeader} \cup {Header(bearerPrefix, NewToken(u, Seconds(MaxTime), JwtSecret, 0)) :
                        u \in 1..MaxUserID}

NextRoute ==
    \/ \E hdr \in RouteHeaders : JWTAuth(hdr, StrUserList)
    \/ AuthRequired
    \/ RequirePermission
    \/ RoleLoop
    \/ Decide
    \/ \E idStr \in {Itoa(Subject), "abc"}, body \in RequestBodies :
          UpdateUserRoute(idStr, body)
    \/ Tick

SpecRoute == Init /\ [][NextRoute]_vars

\* the bodies sent to POST /api/v1/login
LoginBodies ==
    {[email |-> e, password |-> p] : e \in Emails, p \in Passwords}
        \cup {[text |-> "{"]}

\* logging in against a table that Register and the user handlers write
NextLogin ==
    \/ \E body \in LoginBodies : LoginHandler(body, LifetimeConst)
    \/ Register("new@x", "pw2", LifetimeConst)
    \/ \E password \in Passwords \ {""} :
          UpdateUser(Itoa(Subject),
                     [email |-> "ann@x", password |-> RawPassword(password)])
    \/ Tick

SpecLogin == Init /\ [][NextLogin]_vars

(***************************** properties ***********************************)
\* the Authorization header begins with the seven characters "Bearer "
StartsWithBearer(hdr) ==
    /\ Len(hdr.scheme) >= 7
    /\ \A i \in 1..7 : hdr.scheme[i] = bearerPrefix[i]

\* the token names an HMAC method and its signature was made with the server
\* secret over exactly the claims it carries
Verifies(tok) ==
    /\ tok.alg \in HMACAlgs
    /\ tok.sig.key = JwtSecret
    /\ tok.sig.alg = tok.alg
    /\ tok.sig.id = tok.id
    /\ tok.sig.exp = tok.exp

PipelineStages == {"JWTAuth", "AuthRequired", "RequirePermission"}

\* both kinds of lookup were made for the request and none failed
Resolved(r) == r.rolesRead /\ r.roles = {} /\ ~r.dbErr

\* the guard has decided on a completely resolved set
Decided(r) == Resolved(r) /\ r.pc \in {"handler", "done"}

\* equal up to the case of the letters
FoldEq(a, b) ==
    /\ Len(a) = Len(b)
    /\ \A i \in 1..Len(a) : ToLowerChar(a[i]) = ToLowerChar(b[i])

\* the stored names of the permissions granted to the roles assigned to s
GrantedNames(s) ==
    {PermissionName[rp[2]] : rp \in {x \in rolePerms : <<s, x[1]>> \in userRoles}}

\* the loop of the guard run to its end without interruption
RECURSIVE ResolveRoles(_, _)
ResolveRoles(roles, acc) ==
    IF roles = {} THEN acc
    ELSE LET role == CHOOSE x \in roles : TRUE
         IN  ResolveRoles(roles \ {role}, AddPerms(acc, GetPermissionsByRoleID(role)))

ResolvePermissions(s) == ResolveRoles(GetRolesByUserID(s), MakePermsSet)

GateAllows(s, permissionName) == Holds(ResolvePermissions(s), permissionName)

\* C1: the wrapped handler runs only for a request whose token JWTAuth
\* accepted and whose permission set, resolved in this request for the token's
\* subject, contains the required permission; once the pipeline has answered
\* 401, 403 or 500 the handler has not run and does not run.
C1_HandlerOnlyWhenAllowed ==
    /\ (req.pc = "handler" \/ req.ran) =>
          /\ StartsWithBearer(req.hdr)
          /\ Verifies(req.hdr.tok)
          /\ PipelineStages \subseteq req.stages
          /\ req.claims.set
          /\ req.hdr.tok.id.kind = "num"
          /\ req.userID = req.hdr.tok.id.val
          /\ Resolved(req)
          /\ \E n \in permsSet : FoldEq(n, req.perm)
    /\ req.by \in PipelineStages =>
          /\ req.pc = "done"
          /\ req.status \in {401, 403, 500}
          /\ ~req.ran
          /\ "handler" \notin req.stages
    /\ req.status \in {401, 403, 500} => req.by \in PipelineStages

C1_Witness ==
    /\ req.ran
    /\ req.status = 200
    /\ req.hdr.tok \in IssuedTokens

\* C2: when all lookups of a request succeeded and no row changed since its
\* first lookup, the resolved set is exactly the union, over the roles
\* assigned to the subject, of the names granted to each role (as the gate
\* keeps them, lower-cased).
C2_ExactUnion ==
    (Resolved(req) /\ ~dirty) => permsSet = EffectivePermissions(req.userID)

\* two roles, neither covering the other, were resolved into one set
C2_Witness ==
    /\ Resolved(req)
    /\ ~dirty
    /\ \E r1, r2 \in GetRolesByUserID(req.userID) :
          /\ ~(GetPermissionsByRoleID(r1) \subseteq GetPermissionsByRoleID(r2))
          /\ ~(GetPermissionsByRoleID(r2) \subseteq GetPermissionsByRoleID(r1))
    /\ Cardinality(permsSet) = 3

\* C3: a failed lookup is answered 500 "internal error" by the guard, never
\* 403, and the handler does not run.
C3_LookupFailureIs500 ==
    req.dbErr =>
       /\ req.pc = "done"
       /\ req.status = 500
       /\ req.body = "internal error"
       /\ req.by = "RequirePermission"
       /\ ~req.ran

\* the failure was in the second kind of lookup, after a set had been started
C3_Witness ==
    /\ req.dbErr
    /\ req.rolesRead
    /\ req.lookups >= 2
    /\ req.status = 500

\* the roles lookup succeeded and returned no role
NoRolesFound(r) == r.rolesRead /\ r.lookups = 1 /\ r.roles = {}

\* C4: a subject with a valid token and no assigned role is denied with 403
\* "permission denied" for every required permission, never 500 and never
\* allowed.
C4_NoRolesDenied ==
    NoRolesFound(req) =>
       /\ req.pc \in {"loop", "done"}
       /\ ~req.ran
       /\ req.pc = "done" =>
             /\ req.status = 403
             /\ req.body = "permission denied"

C4_Witness ==
    /\ NoRolesFound(req)
    /\ req.pc = "done"
    /\ req.status = 403
    /\ req.hdr.tok \in IssuedTokens
    /\ GetRolesByUserID(req.hdr.tok.id.val) = {}

\* C5: JWTAuth passes a request on only if the signature verifies under
\* the server secret and the token carries an expiry strictly later than the
\* time of the check.
C5_ExpiryRequired ==
    req.claims.set =>
       /\ Verifies(req.hdr.tok)
       /\ req.hdr.tok.exp.kind = "num"
       /\ req.hdr.tok.exp.val > req.jwtAt

\* C6: a header that is absent or does not start with "Bearer " is answered
\* 401 by JWTAuth with no lookup made and no later stage run.
C6_NoBearerNoLookup ==
    (req.pc # "idle" /\ ~StartsWithBearer(req.hdr)) =>
       /\ req.pc = "done"
       /\ req.status = 401
       /\ req.by = "JWTAuth"
       /\ req.stages = {"JWTAuth"}
       /\ req.lookups = 0
       /\ ~req.ran

C6_Witness ==
    /\ req.pc = "done"
    /\ req.hdr = BasicHeader
    /\ req.status = 401

\* C7: the guard, run on a request with no identity attached (no claims, or
\* claims without id), answers 401 "unauthorized", makes no lookup and does
\* not run the handler.
C7_NoIdentity401 ==
    ("RequirePermission" \in req.stages
        /\ (~req.claims.set \/ req.claims.id.kind = "absent")) =>
       /\ req.pc = "done"
       /\ req.status = 401
       /\ req.body = "unauthorized"
       /\ req.by = "RequirePermission"
       /\ req.lookups = 0
       /\ ~req.rolesRead
       /\ ~req.ran

C7_Witness ==
    /\ "RequirePermission" \in req.stages
    /\ req.claims.set
    /\ req.claims.id.kind = "absent"
    /\ req.status = 401

\* C8: a request whose lookups all ran after the last completed change of
\* the role graph is decided on the graph as that change left it: 403 if no
\* assigned role grants the permission, allowed if one does; nothing resolved
\* for an earlier request is carried over.
C8_ChangesSeenByNextRequest ==
    (Decided(req) /\ ~dirty) =>
       /\ (req.pc = "done" /\ req.status = 403) <=> ~GrantedNow(req.userID, req.perm)
       /\ (req.pc = "handler" \/ req.ran) <=> GrantedNow(req.userID, req.perm)
       /\ permsSet \subseteq EffectivePermissions(req.userID)

\* the subject's role that grants the permission was removed, and the next
\* request with an issued token was denied
C8_Witness ==
    /\ Decided(req)
    /\ ~dirty
    /\ req.status = 403
    /\ req.hdr.tok \in IssuedTokens
    /\ lastOp.kind = "RemoveRole"
    /\ lastOp.a = req.userID
    /\ \E n \in GetPermissionsByRoleID(lastOp.b) : FoldEq(n, req.perm)

\* C9: the guard allows exactly when some granted name equals the required
\* name up to the case of the letters; a granted name that is only a prefix
\* of the required one (or the reverse) does not allow.
C9_CaseInsensitiveExact ==
    (Decided(req) /\ ~dirty) =>
       ((req.pc = "handler" \/ req.ran)
           <=> \E n \in GrantedNames(req.userID) : FoldEq(n, req.perm))

\* allowed through a stored name that differs from the required one in case
C9_Witness ==
    /\ Decided(req)
    /\ ~dirty
    /\ req.ran
    /\ req.perm \notin GrantedNames(req.userID)
    /\ \E n \in GrantedNames(req.userID) : n # req.perm /\ FoldEq(n, req.perm)

\* a step in which AssignRole or AssignPermission added a row
GrowStep ==
    /\ opCount' = opCount + 1
    /\ lastOp'.kind \in {"AssignRole", "AssignPermission"}

\* C10: adding an assignment or a grant never turns an allow into a deny:
\* whoever the guard allows before AssignRole or AssignPermission, it allows
\* after it.
C10_Additive ==
    [][GrowStep =>
         \A s \in Users :
            LET before == ResolvePermissions(s)
                after == ResolvePermissions(s)'
            IN  /\ before \subseteq after
                /\ \A p \in GatePerms : Holds(before, p) => Holds(after, p)]_vars

\* a second role was assigned to a subject that the guard allowed before
C10_Witness ==
    /\ lastOp.kind = "AssignRole"
    /\ Cardinality(GetRolesByUserID(lastOp.a)) = 2
    /\ \E p \in GatePerms :
          /\ GateAllows(lastOp.a, p)
          /\ Holds(ResolveRoles(GetRolesByUserID(lastOp.a) \ {lastOp.b}, MakePermsSet), p)

\* the request carries NewToken(u, d seconds, server secret) made at time t
CarriesIssued(r, u, d, t) ==
    /\ r.pc # "idle"
    /\ r.hdr = Header(bearerPrefix, NewToken(u, Seconds(d), JwtSecret, t))

\* JWTAuth attached the claims and called the next handler
Accepted(r) == r.pc # "idle" /\ r.claims.set /\ r.by # "JWTAuth"

RejectedExpired(r) ==
    /\ r.pc = "done"
    /\ r.by = "JWTAuth"
    /\ r.status = 401
    /\ r.body = "Token is expired"
    /\ ~r.claims.set

Tampered(tok) ==
    \/ tok.alg \notin HMACAlgs
    \/ tok.sig # Sign(JwtSecret, tok.alg, tok.id, tok.exp)

\* C13: a token whose claims or signature were altered after signing, or that
\* was signed under another secret or names a non-HMAC algorithm, is never
\* accepted by JWTAuth; the subject id read from an accepted token is the id
\* that was signed.
C13_TamperSensitive ==
    /\ (req.pc # "idle" /\ StartsWithBearer(req.hdr) /\ Tampered(req.hdr.tok)) =>
          /\ req.pc = "done"
          /\ req.by = "JWTAuth"
          /\ req.status = 401
          /\ ~req.claims.set
          /\ ~req.ran
    /\ Accepted(req) =>
          /\ req.claims.id = req.hdr.tok.sig.id
          /\ req.claims.exp = req.hdr.tok.sig.exp
          /\ req.hdr.tok.sig.key = JwtSecret
          /\ ("RequirePermission" \in req.stages /\ req.hdr.tok.sig.id.kind = "num") =>
                req.userID = req.hdr.tok.sig.id.val

\* an issued token whose id claim was changed to another user's was refused
C13_Witness ==
    /\ req.pc = "done"
    /\ req.by = "JWTAuth"
    /\ req.status = 401
    /\ req.hdr.tok.sig = NewToken(1, Seconds(MaxTime), JwtSecret, 0).sig
    /\ req.hdr.tok.id = NumClaim(2)
    /\ req.jwtAt < MaxTime

\* C14: every token handed out by Login or Register expires exactly 24 hours
\* (86400 seconds) after the time it was made.
C14_Lifetime24h ==
    \A i \in issued :
       /\ i.by \in {"Login", "Register"}
       /\ i.tok.exp = NumClaim(i.at + 86400)

\* the request presented the token of i in the second it was handed out, to
\* the endpoint guarded by RequirePermission("user:list"), and was answered
\* without a failed lookup
PresentedAtOnce(r, i) ==
    /\ r.pc = "done"
    /\ r.hdr = Header(bearerPrefix, i.tok)
    /\ r.perm = StrUserList
    /\ r.jwtAt = i.at
    /\ ~r.dbErr

\* C15: scenario A: the token that Register returns for a new e-mail (or that
\* a following Login returns), presented at once to the endpoint guarded by
\* RequirePermission("user:list") while the subject has no role, passes
\* JWTAuth and AuthRequired and is answered 403 "permission denied".
C15_ScenarioA ==
    \A i \in issued :
       (PresentedAtOnce(req, i) /\ GetRolesByUserID(i.uid) = {}) =>
          /\ {"JWTAuth", "AuthRequired", "RequirePermission"} \subseteq req.stages
          /\ req.status = 403
          /\ req.body = "permission denied"

\* the same, for the server whose AuthHandler passes 24*time.Hour
ScenarioAWithLifetimeConst ==
    \A i \in issued :
       (PresentedAtOnce(req, i) /\ GetRolesByUserID(i.uid) = {}
           /\ i.lifetime = LifetimeConst) =>
          /\ {"JWTAuth", "AuthRequired", "RequirePermission"} \subseteq req.stages
          /\ req.status = 403
          /\ req.body = "permission denied"

\* the only role assigned to s is the seeded role "admin"
OnlyAdmin(s) == GetRolesByUserID(s) = {AdminRole}

Denied(r) ==
    /\ r.pc = "done"
    /\ r.by \in {"JWTAuth", "AuthRequired", "RequirePermission"}

\* C17: every denial of the authorization pipeline is answered with a JSON
\* object that carries an error string and the matching status code (401 for
\* the header, the token and the identity, 403 for the permission, 500 for a
\* failed lookup), and the body holds no text of the token parser's error.
C17_JsonDenials ==
    Denied(req) =>
       /\ req.ctype = "application/json"
       /\ req.body # ""
       /\ req.detail = ""
       /\ req.status \in {401, 403, 500}
       /\ (req.status = 403) <=> (req.body = "permission denied")
       /\ (req.status = 500) <=> req.dbErr

\* what does hold: the denials written by RequirePermission are JSON, and
\* every denial has the status code of its cause
DenialsOfTheGuardAreJson ==
    Denied(req) =>
       /\ req.status \in {401, 403, 500}
       /\ req.body # ""
       /\ (req.by = "RequirePermission") =>
             (req.ctype = "application/json" /\ req.detail = "")
       /\ (req.by # "RequirePermission") =>
             (req.ctype = "text/plain" /\ req.status = 401)
       /\ (req.status = 403) <=> (req.body = "permission denied")
       /\ (req.status = 500) <=> req.dbErr

\* two outcomes of one handler call agree on the tables of the resource and
\* on the status and body of the answer
SameAnswerAndRows(o1, o2) ==
    /\ o1.users = o2.users
    /\ o1.userSeq = o2.userSeq
    /\ o1.resp.status = o2.resp.status
    /\ o1.resp.body = o2.resp.body
    /\ o1.resp.row = o2.resp.row

\* the mutation that the last handler answered for is in the table
Persisted(answer) ==
    CASE answer.op = "CreateUser" -> GetClientByID(answer.row) # {}
      [] answer.op = "UpdateUser" -> TRUE
      [] answer.op = "DeleteUser" -> GetClientByID(answer.row) = {}
      [] OTHER -> FALSE

\* C18: a failure of the audit recorder never blocks or fails the request:
\* in every state and for every audited create, update and delete call, the
\* status, the body and the rows written are the same whether AddAuditLog
\* succeeds or returns an error; a handler whose audit insert failed answered
\* with its success status and its mutation stayed in the table.
C18_AuditNeverBlocks ==
    /\ \A body \in UserBodies, dbOk \in BOOLEAN :
          SameAnswerAndRows(CreateUserOutcome(body, dbOk, TRUE),
                            CreateUserOutcome(body, dbOk, FALSE))
    /\ \A id \in 1..MaxUserID, body \in UserBodies, dbOk \in BOOLEAN :
          SameAnswerAndRows(UpdateUserOutcome(id, body, dbOk, TRUE),
                            UpdateUserOutcome(id, body, dbOk, FALSE))
    /\ \A id \in 1..MaxUserID, dbOk \in BOOLEAN :
          SameAnswerAndRows(DeleteUserOutcome(id, dbOk, TRUE),
                            DeleteUserOutcome(id, dbOk, FALSE))
    /\ resp.auditErr =>
          /\ resp.status \in {200, 201, 204}
          /\ Persisted(resp)

\* DeleteUser removed a row, its audit insert failed, and it answered 204
C18_Witness ==
    /\ resp.auditErr
    /\ resp.op = "DeleteUser"
    /\ resp.status = 204
    /\ resp.row \in {u.id : u \in SeedUsers}
    /\ GetClientByID(resp.row) = {}
    /\ auditLog = << >>

\* JWTAuth has run on the request
Arrived(r) == r.pc # "idle" /\ "JWTAuth" \in r.stages

\* the token's exp claim, when it has one, is later than t
Unexpired(tok, t) == tok.exp.kind = "num" => t < tok.exp.val

\* C19: token validity is stateless: JWTAuth accepts a token exactly when its
\* signature verifies and the time of the check is before its expiry, whatever
\* roles and permissions were assigned or removed, whatever happened to the
\* subject's row of table user (password change, deletion) and whatever other
\* tokens were handed out since it was issued.
C19_Stateless ==
    (Arrived(req) /\ StartsWithBearer(req.hdr)) =>
       (Accepted(req) <=>
           (~Tampered(req.hdr.tok) /\ Unexpired(req.hdr.tok, req.jwtAt)))

\* the subject's row was deleted, or its password changed, after the token
\* was signed, and JWTAuth still accepted the token
C19_Witness ==
    /\ Arrived(req)
    /\ Accepted(req)
    /\ req.hdr.tok.id = NumClaim(Subject)
    /\ req.subjectRows = {}
    /\ resp.op = "DeleteUser"

\* the password of the subject was changed, and the token handed out by the
\* login with the old password is still accepted
StillAcceptedAfterPasswordChange ==
    /\ Arrived(req)
    /\ Accepted(req)
    /\ \E i \in issued : i.by = "Login" /\ req.hdr.tok = i.tok /\ i.uid = Subject
    /\ \E u \in req.subjectRows : u \notin SeedUsers

\* the guard let the request through
AllowedByGuard(r) == r.rolesRead /\ (r.pc = "handler" \/ r.ran)

\* the guard answered 403
DeniedByGuard(r) ==
    r.rolesRead /\ r.pc = "done" /\ r.by = "RequirePermission" /\ r.status = 403

\* C20: under any interleaving with AssignRole, RemoveRole, AssignPermission
\* and RemovePermission, a request is allowed for p only if the subject's
\* effective permission set contained p at some single instant between the
\* start of the request's lookup and its decision, and it is denied only if
\* the set lacked p at some such instant.
C20_SnapshotDecision ==
    /\ AllowedByGuard(req) => snap.held
    /\ DeniedByGuard(req) => snap.lacked

\* the two halves, to see which of them the interleavings break
C20_AllowedOnlyIfHeld == AllowedByGuard(req) => snap.held

C20_DeniedOnlyIfLacked == DeniedByGuard(req) => snap.lacked

\* what does hold: with no write between the first lookup and the decision
\* the decision is the one of the state the request started in
DecisionWithoutWrites ==
    (Decided(req) /\ ~dirty) =>
       /\ AllowedByGuard(req) => (snap.held /\ ~snap.lacked)
       /\ DeniedByGuard(req) => (snap.lacked /\ ~snap.held)

\* the claims attached to the request have an id that is not a number
OddIDClaim(r) == r.claims.set /\ r.claims.id.kind \notin {"absent", "num"}

\* C21: when the id claim is present but neither an integer nor a
\* floating-point number, RequirePermission answers 401 "unauthorized" and
\* makes no role or permission lookup; it never resolves permissions for a
\* substitute subject id such as 0.
C21_OddIdentity401 ==
    ("RequirePermission" \in req.stages /\ OddIDClaim(req)) =>
       /\ req.pc = "done"
       /\ req.status = 401
       /\ req.body = "unauthorized"
       /\ req.lookups = 0
       /\ ~req.rolesRead

\* what the guard does with such a claim: it looks up the roles of subject 0,
\* and never answers 401
OddIdentityResolvedAsZero ==
    ("RequirePermission" \in req.stages /\ OddIDClaim(req)) =>
       /\ req.userID = 0
       /\ req.lookups >= 1
       /\ req.status # 401
       /\ (Decided(req) /\ GetRolesByUserID(0) = {}) => req.status = 403

\* position of a request in the chain
Rank(pc) ==
    CASE pc = "idle" -> 0
      [] pc = "jwt" -> 1
      [] pc = "auth" -> 2
      [] pc = "rbac" -> 3
      [] pc = "loop" -> 4
      [] pc = "handler" -> 5
      [] pc = "done" -> 6

\* a new request arrives with nothing carried over from the one before
Arrives ==
    /\ req.pc \in {"idle", "done"}
    /\ req'.stages = {"JWTAuth"}
    /\ req'.lookups = 0
    /\ ~req'.rolesRead
    /\ ~req'.ran

\* the request moves forward: to a later stage, or to the next role of the loop
Forward ==
    /\ req.stages \subseteq req'.stages
    /\ req'.hdr = req.hdr
    /\ \/ Rank(req'.pc) > Rank(req.pc)
       \/ /\ req.pc = "loop"
          /\ req'.pc = "loop"
          /\ req'.roles \subseteq req.roles
          /\ req'.roles # req.roles
          /\ req'.lookups = req.lookups + 1

\* the terminal outcomes of a request
Outcomes(r) ==
    {o \in {"Allowed", "Denied", "Unauthorized", "InternalError"} :
        CASE o = "Allowed" -> r.pc = "handler" \/ r.ran
          [] o = "Denied" -> r.pc = "done" /\ ~r.ran /\ r.status = 403
          [] o = "Unauthorized" -> r.pc = "done" /\ ~r.ran /\ r.status = 401
          [] o = "InternalError" -> r.pc = "done" /\ ~r.ran /\ r.status = 500}

InFlight(r) == r.pc \in {"jwt", "auth", "rbac", "loop"}

Terminal(r) == r.pc \in {"handler", "done"}

\* C22: each guarded request runs the pipeline once, forward only: every
\* change of the request is the arrival of a new one or a step forward, a
\* status is written only when the request ends, a request that has ended has
\* exactly one of the outcomes Allowed, Denied (403), Unauthorized (401) and
\* InternalError (500), one roles lookup and one permission lookup per role
\* are made at most, and every request that has started reaches an outcome.
C22_OncePerRequest ==
    /\ [][(req' # req) => (Arrives \/ Forward)]_vars
    /\ [](Terminal(req) <=> (Cardinality(Outcomes(req)) = 1))
    /\ [](InFlight(req) => (req.status = 0 /\ Outcomes(req) = {}))
    /\ [](req.lookups <= 1 + Cardinality(Roles))
    /\ (InFlight(req) ~> Terminal(req))

\* a request of a subject with two roles went through every stage, one
\* roles lookup and two permission lookups, and was allowed
C22_Witness ==
    /\ req.pc = "handler"
    /\ req.stages = PipelineStages
    /\ req.lookups = 3
    /\ req.userID = Subject
    /\ GetRolesByUserID(Subject) = Roles

\* what is stored: users, assignments, grants and the audit log (roles and
\* the permission names with their casing are fixed rows of the seed)
storage == <<users, userSeq, userRoles, rolePerms, auditLog>>

\* a step of the chain on the request, the wrapped handler excluded
PipelineStep == req' # req /\ "handler" \notin req'.stages

\* C23: the authorization pipeline performs no writes: every step of
\* JWTAuth, AuthRequired and RequirePermission leaves users, assignments,
\* grants and the audit log as they were, and what the guard lower-cases is
\* its own set, so the stored names keep their casing.
C23_PipelineWritesNothing ==
    /\ [][PipelineStep => UNCHANGED storage]_vars
    /\ [](\A r \in Roles, pid \in PermIDs :
             <<r, pid>> \in rolePerms => PermissionName[pid] \in GetPermissionsByRoleID(r))

\* a request was denied by the guard after a user row had been changed and
\* an audit record written
C23_Witness ==
    /\ req.pc = "done"
    /\ req.by = "RequirePermission"
    /\ req.status = 403
    /\ users # SeedUsers
    /\ auditLog # << >>

\* the last record of the audit log
LastAudit(log) == log[Len(log)]

\* the action type a handler records
ActionOf(op) ==
    CASE op = "CreateUser" -> "INSERT"
      [] op = "UpdateUser" -> "UPDATE"
      [] op = "DeleteUser" -> "DELETE"
      [] OTHER -> "none"

\* C24: an audit record is appended only after a successful mutation: a step
\* that changes the audit log appends exactly one record, is a step of a
\* handler and not of the pipeline, answers with the handler's success status,
\* and records the row and the action of the mutation that the handler made;
\* a handler that answers 400 or 500 leaves the audit log and the table as
\* they were.
C24_AuditAfterMutation ==
    /\ [][(auditLog' # auditLog) =>
            /\ Len(auditLog') = Len(auditLog) + 1
            /\ SubSeq(auditLog', 1, Len(auditLog)) = auditLog
            /\ req' = req
            /\ resp'.status \in {200, 201, 204}
            /\ ~resp'.auditErr
            /\ LastAudit(auditLog').table = "user"
            /\ LastAudit(auditLog').row = resp'.row
            /\ LastAudit(auditLog').action = ActionOf(resp'.op)
            /\ Persisted(resp)']_vars
    /\ [][(resp' # resp /\ resp'.status \in {400, 404, 500}) =>
            (auditLog' = auditLog /\ users' = users /\ userSeq' = userSeq)]_vars
    /\ [][(req' # req) => auditLog' = auditLog]_vars

\* CreateUser inserted a row and recorded it, next to a request that the
\* pipeline had rejected
C24_Witness ==
    /\ Len(auditLog) = 1
    /\ auditLog[1].action = "INSERT"
    /\ resp.op = "CreateUser"
    /\ resp.status = 201
    /\ auditLog[1].row = resp.row
    /\ GetClientByID(resp.row) # {}
    /\ req.pc = "done"
    /\ req.status = 401

\* one of the two "my own record" handlers was called for the request
SelfHandlerCalled(r) == r.pc = "done" /\ "handler" \in r.stages

\* C25: for a request that passed JWTAuth and the guard, GetMyTeacherProfile
\* and UpdateMyTeacherProfile complete without aborting abnormally and
\* operate on the teacher record whose user id is the subject id of the
\* token, never on another one.
C25_OwnRecord ==
    SelfHandlerCalled(req) =>
       /\ req.by \in {"GetMyTeacherProfile", "UpdateMyTeacherProfile"}
       /\ resp.status = 200 => resp.row = req.userID

\* what the two handlers do: the type assertion on the id claim fails for
\* every token, and the panic is answered 500 by the Recoverer
SelfHandlersAlwaysPanic ==
    SelfHandlerCalled(req) =>
       /\ req.by = "Recoverer"
       /\ req.status = 500
       /\ resp.row = 0
       /\ auditLog = << >>

\* C26: after any sequence of Register, CreateUser and UpdateUser, every
\* stored user's password credential is a one-way hash of a password and never
\* the bytes supplied in a request; the identifier of a user is the same
\* after UpdateUser as before it.
C26_HashedCredentials ==
    \A u \in users :
       /\ u.password.kind = "bcrypt"
       /\ u.id \in 1..userSeq

\* the part that holds: no handler changes the identifier of a stored row;
\* rows are added by CreateUser and removed by DeleteUser only
IdentifierNeverChanges ==
    [][resp'.op = "UpdateUser" =>
          /\ {u.id : u \in users'} = {u.id : u \in users}
          /\ userSeq' = userSeq]_vars

\* the rows Register writes carry a bcrypt hash
RegisterStoresHash ==
    \A u \in users : u.id > Cardinality(SeedUsers) => u.password.kind = "bcrypt"

\* C27: emails are unique under any interleaving of Register requests: no
\* state holds two users with one email, and a Register request whose email is
\* stored creates no user, issues no token and is answered 409 "email already
\* exists" -- at its lookup, and at its insert when another request stored the
\* email in between
UniqueEmails == \A u, v \in users : u.email = v.email => u.id = v.id

Conflict == Answer("Register", 409, "email already exists")

RefusedAsConflict ==
    /\ users' = users
    /\ issued' = issued
    /\ pending' \subseteq pending
    /\ resp' = Conflict

C27_UniqueEmails ==
    /\ []UniqueEmails
    /\ [][\A email \in Emails \ {""}, password \in Passwords \ {""} :
            (GetClientByEmail(email) # {} /\ RegisterLookup(email, password))
                => RefusedAsConflict]_vars
    /\ [][\A p \in pending :
            (GetClientByEmail(p.email) # {} /\ RegisterCreate(p, LifetimeConst))
                => RefusedAsConflict]_vars

\* what does hold: emails stay unique, and a Register request whose email is
\* stored when its insert runs creates no user and issues no token, but is
\* answered 500 "internal error"
DuplicateInsertIs500 ==
    /\ []UniqueEmails
    /\ [][\A p \in pending :
            (GetClientByEmail(p.email) # {} /\ RegisterCreate(p, LifetimeConst))
                => /\ users' = users
                   /\ issued' = issued
                   /\ resp' = Answer("Register", 500, "internal error")]_vars

\* C28: every audit record appended by a guarded handler carries as its user
\* id the subject id of the token that authorized the request, never an empty one
AuditAppended == Len(auditLog') = Len(auditLog) + 1

C28_AuditCarriesSubject ==
    [][AuditAppended =>
          LET entry == auditLog'[Len(auditLog')]
          IN  /\ req.pc = "handler"
              /\ req.claims.id.kind = "num"
              /\ entry.user = req.claims.id.val
              /\ entry.user # 0]_vars

\* what does hold: the record is written for a request that the guard let
\* through with the numeric subject of its token, and its user id is empty
AuditUserIsEmpty ==
    [][AuditAppended =>
          LET entry == auditLog'[Len(auditLog')]
          IN  /\ req.pc = "handler"
              /\ req.claims.id.kind = "num"
              /\ req.claims.id.val = req.userID
              /\ req.userID # 0
              /\ entry.user = 0]_vars

\* C29: Login issues a token only when the email belongs to a stored user and
\* the password matches that user's stored hash, and the subject id of the
\* token is that user's id; an unknown email and a wrong password get the same
\* answer, 401 "invalid credentials" with no token
HashMatches(u, password) == u.password = GenerateFromPassword(password)

InvalidCredentials == Answer("Login", 401, "invalid credentials")

C29_LoginNeedsCredentials ==
    [][\A body \in LoginBodies \ {[text |-> "{"]} :
          LoginHandler(body, LifetimeConst) =>
             LET found == GetClientByEmail(body.email)
                 unknown == found = {}
                 wrong == \E u \in found : ~HashMatches(u, body.password)
             IN  /\ resp'.status = 200 =>
                       \E u \in found :
                          /\ HashMatches(u, body.password)
                          /\ resp'.tok.id = NumClaim(u.id)
                          /\ issued' \ issued \subseteq
                                {Issue(resp'.tok, "Login", u.id, LifetimeConst)}
                 /\ resp'.status # 200 => issued' = issued
                 /\ (unknown \/ wrong) =>
                       resp' = InvalidCredentials /\ issued' = issued]_vars

\* a Login was refused with the table holding a user whose login had
\* succeeded before, one user whose stored bytes are no hash, and no user
\* with the third email
C29_Witness ==
    /\ resp = InvalidCredentials
    /\ \E i \in issued : i.by = "Login" /\ i.uid = Subject
    /\ \E u \in users : u.id = Subject /\ u.password.kind = "raw"
    /\ GetClientByEmail("new@x") = {}

\* C30: assignments and grants behave as sets. AssignRole(s, r) applied twice
\* leaves the state of one application and succeeds both times; RemoveRole(s, r)
\* of an absent assignment succeeds and changes nothing; AssignRole(s, r) then
\* RemoveRole(s, r) on a state without the assignment restores the state; each
\* operation leaves every other assignment and every grant unchanged. The same
\* holds for AssignPermission and RemovePermission.
Others(table, row) == table \ {row}

\* in every state, for every pair: what each operation would answer and leave
SetLikeHere ==
    /\ \A s \in Users, r \in Roles :
          LET row == <<s, r>>
          IN  /\ ~AssignRoleErr(s, r)
              /\ ~RemoveRoleErr(s, r)
              /\ row \in AssignRoleRows(s, r)
              /\ row \notin RemoveRoleRows(s, r)
              /\ row \notin userRoles => RemoveRoleRows(s, r) = userRoles
              /\ Others(AssignRoleRows(s, r), row) = Others(userRoles, row)
              /\ Others(RemoveRoleRows(s, r), row) = Others(userRoles, row)
    /\ \A r \in Roles, p \in PermIDs :
          LET row == <<r, p>>
          IN  /\ ~AssignPermissionErr(r, p)
              /\ ~RemovePermissionErr(r, p)
              /\ row \in AssignPermissionRows(r, p)
              /\ row \notin RemovePermissionRows(r, p)
              /\ row \notin rolePerms => RemovePermissionRows(r, p) = rolePerms
              /\ Others(AssignPermissionRows(r, p), row) = Others(rolePerms, row)
              /\ Others(RemovePermissionRows(r, p), row) = Others(rolePerms, row)

\* after an assignment: assigning again would succeed and leave the state,
\* and removing would give back the state before when the row was new
AfterAssignRole ==
    \A s \in Users, r \in Roles :
       AssignRole(s, r) =>
          /\ userRoles' = AssignRoleRows(s, r)
          /\ rolePerms' = rolePerms
          /\ ~AssignRoleErr(s, r)'
          /\ AssignRoleRows(s, r)' = userRoles'
          /\ <<s, r>> \notin userRoles => RemoveRoleRows(s, r)' = userRoles

AfterRemoveRole ==
    \A s \in Users, r \in Roles :
       RemoveRole(s, r) =>
          /\ userRoles' = RemoveRoleRows(s, r)
          /\ rolePerms' = rolePerms
          /\ ~RemoveRoleErr(s, r)'
          /\ RemoveRoleRows(s, r)' = userRoles'

AfterAssignPermission ==
    \A r \in Roles, p \in PermIDs :
       AssignPermission(r, p) =>
          /\ rolePerms' = AssignPermissionRows(r, p)
          /\ userRoles' = userRoles
          /\ ~AssignPermissionErr(r, p)'
          /\ AssignPermissionRows(r, p)' = rolePerms'
          /\ <<r, p>> \notin rolePerms => RemovePermissionRows(r, p)' = rolePerms

AfterRemovePermission ==
    \A r \in Roles, p \in PermIDs :
       RemovePermission(r, p) =>
          /\ rolePerms' = RemovePermissionRows(r, p)
          /\ userRoles' = userRoles
          /\ ~RemovePermissionErr(r, p)'
          /\ RemovePermissionRows(r, p)' = rolePerms'

====
